---- MODULE Spec2Model ----
(***************************************************************************)
(* GitTornado: the process bridge gittornado.iowrapper.ProcessWrapper.     *)
(*                                                                         *)
(* One bridge couples one HTTP request with one child process through the  *)
(* child's three pipes.  The tornado IOLoop polls the descriptors, collects *)
(* the ready events of one poll in a batch and hands them to the handlers   *)
(* in arbitrary order.  Byte streams are sequences of string tokens: a      *)
(* token is one byte, except the tokens of a response head.                 *)
(*                                                                         *)
(* In front of the bridge stand the request handlers of gittornado and the  *)
(* hooks of gittornado.server (auth, gitlookup, auth_failed): WebSpec runs  *)
(* one handler on one request, up to the construction of the bridge.        *)
(***************************************************************************)
EXTENDS Integers, Sequences, FiniteSets, TLC

VARIABLES
    \* the request (fixed at construction)
    method, http11, chunkedReq, gzipReq, body, request_wire, output_prelude,
    \* the child's program: how many bytes it writes to stdout and to stderr
    outMax, errMax,
    \* ProcessWrapper fields
    phase, headers_sent, sent_chunks, got_request, process_input_buffer,
    closed, handlers, reading_chunks, got_chunk, gzip_header_seen, gzip_decompressor,
    \* the connection stream of the request: bytes the client has yet to send, bytes
    \* arrived and not consumed, the read outstanding, closed or not
    wire, peer_gone, sbuf, rd, stream_closed,
    \* IOLoop callbacks: to run in this iteration, added for the next one
    cb_now, cb_next,
    \* the IOLoop: events of the current poll batch, handler stuck in a blocking read
    events, blocked,
    \* the request object: bytes handed to request.write, calls of request.finish
    client, finish_count,
    \* exceptions raised out of bridge operations
    raised,
    \* the child process and its pipes
    outPipe, outSent, outEOF, errPipe, errSent, errEOF, inOpen, stdin_written,
    \* the request a handler of gittornado serves, the hooks it is configured with,
    \* and what the handler has done
    request, conf, reply

vars == << method, http11, chunkedReq, gzipReq, body, request_wire, output_prelude,
           outMax, errMax,
           phase, headers_sent, sent_chunks, got_request, process_input_buffer,
           closed, handlers, reading_chunks, got_chunk, gzip_header_seen,
           gzip_decompressor, wire, peer_gone, sbuf, rd, stream_closed, cb_now, cb_next,
           events, blocked, client, finish_count, raised,
           outPipe, outSent, outEOF, errPipe, errSent, errEOF, inOpen, stdin_written,
           request, conf, reply >>

\* what is fixed while the bridge runs
reqVars == << method, http11, chunkedReq, gzipReq, body, request_wire, output_prelude,
             outMax, errMax, request, conf, reply >>

\* the bridge's variables
bridgeVars == << method, http11, chunkedReq, gzipReq, body, request_wire, output_prelude,
                 outMax, errMax,
                 phase, headers_sent, sent_chunks, got_request, process_input_buffer,
                 closed, handlers, reading_chunks, got_chunk, gzip_header_seen,
                 gzip_decompressor, wire, peer_gone, sbuf, rd, stream_closed, cb_now,
                 cb_next, events, blocked, client, finish_count, raised,
                 outPipe, outSent, outEOF, errPipe, errSent, errEOF, inOpen,
                 stdin_written >>

----------------------------------------------------------------------------
\* Bounds

\* bytes the child writes to stdout at most
MaxOut == 2
\* bytes the child writes to stderr at most
MaxErr == 1
\* block size of one os.read on stdout (8192 in the program)
BlockSize == 1
\* bytes one os.write on stdin accepts at most
MaxWrite == 2

OutData == << "o1", "o2", "o3", "o4" >>
ErrData == << "e1", "e2", "e3" >>

Fds == { "stdin", "stdout", "stderr" }

\* the descriptors the IOLoop polls: the child's pipes and the client connection
LoopFds == Fds \cup { "conn" }

NoEvents == [ fd \in LoopFds |-> {} ]
NoHandlers == [ fd \in Fds |-> {} ]

Min(a, b) == IF a < b THEN a ELSE b

----------------------------------------------------------------------------
\* Number formatting

HexDigit == << "0", "1", "2", "3", "4", "5", "6", "7", "8", "9", "a", "b", "c", "d", "e", "f" >>

RECURSIVE Hex(_)
Hex(n) == IF n < 16 THEN << HexDigit[n + 1] >>
          ELSE Hex(n \div 16) \o << HexDigit[(n % 16) + 1] >>

RECURSIVE Dec(_)
Dec(n) == IF n < 10 THEN << HexDigit[n + 1] >>
          ELSE Dec(n \div 10) \o << HexDigit[(n % 10) + 1] >>

Take(seq, n) == SubSeq(seq, 1, Min(n, Len(seq)))
Drop(seq, n) == SubSeq(seq, Min(n, Len(seq)) + 1, Len(seq))

----------------------------------------------------------------------------
\* The bridge state a handler works on, as one record

St == [ headers_sent |-> headers_sent, sent_chunks |-> sent_chunks,
        got_request |-> got_request, process_input_buffer |-> process_input_buffer,
        closed |-> closed, handlers |-> handlers, events |-> events,
        client |-> client, finish_count |-> finish_count,
        outPipe |-> outPipe, errPipe |-> errPipe, stdin_written |-> stdin_written,
        reading_chunks |-> reading_chunks, got_chunk |-> got_chunk,
        gzip_header_seen |-> gzip_header_seen, gzip_decompressor |-> gzip_decompressor,
        sbuf |-> sbuf, rd |-> rd, stream_closed |-> stream_closed,
        cb_now |-> cb_now, cb_next |-> cb_next,
        exc |-> "none" ]

\* an exception leaves the operation that raises it
raise(s, e) == [ s EXCEPT !.exc = e ]

\* request.write(data)
write(s, data) == [ s EXCEPT !.client = @ \o data ]

\* request.finish()
finish(s) == [ s EXCEPT !.finish_count = @ + 1 ]

\* process.<fd>.close()
close(s, fd) == [ s EXCEPT !.closed[fd] = TRUE ]

\* ioloop.remove_handler(fd): forgets the handler and the pending events of fd
remove_handler(s, fd) == [ s EXCEPT !.handlers[fd] = {}, !.events[fd] = {} ]

\* ioloop.update_handler(fd, events): epoll refuses a descriptor that is closed
update_handler(s, fd, mask) ==
    IF s.closed[fd] THEN raise(s, "IOError")
    ELSE [ s EXCEPT !.handlers[fd] = mask ]

\* response heads
Head200Chunked == << "HTTP/1.1 200", "Transfer-Encoding: chunked", "CR", "LF" >>
Head200Length(n) == << "HTTP/1.0 200", "Content-Length:" >> \o Dec(n) \o << "CR", "LF" >>
Head500(n) == << "HTTP/1.1 500", "Content-Length:" >> \o Dec(n) \o << "CR", "LF" >>
Continue100 == << "HTTP/1.1 100", "CR", "LF" >>

\* one chunk of a chunked body
Chunk(payload) == Hex(Len(payload)) \o << "CR", "LF" >> \o payload \o << "CR", "LF" >>

NoData == << "did", "not", "produce", "any", "data" >>

\* ProcessWrapper._graceful_finish
_graceful_finish(s) ==
    IF ~s.closed["stdout"] \/ ~s.closed["stderr"] THEN s
    ELSE LET s1 == close(s, "stdin") IN
         IF ~s1.headers_sent
         THEN \* self._get_date is no attribute of ProcessWrapper
              raise(s1, "AttributeError")
         ELSE IF s1.sent_chunks
              THEN finish(write(write(s1, << "0", "CR", "LF" >>), << "CR", "LF" >>))
              ELSE finish(s1)

\* _handle_stdin_event taking every os.write for a complete one: the buffer is
\* emptied whatever count was
_handle_stdin_event_full_write(s, ev, count) ==
    IF "E" \in ev
    THEN _graceful_finish(remove_handler(close(s, "stdin"), "stdin"))
    ELSE LET n  == Min(count, Len(s.process_input_buffer))
             s1 == IF s.process_input_buffer # << >>
                   THEN IF s.closed["stdin"] THEN raise(s, "OSError")
                        ELSE IF ~inOpen THEN raise(s, "EPIPE")
                        ELSE [ s EXCEPT !.stdin_written = @ \o Take(s.process_input_buffer, n),
                                        !.process_input_buffer = << >> ]
                   ELSE s
         IN IF s1.exc # "none" THEN s1
            ELSE IF s1.process_input_buffer = << >>
                 THEN IF s1.got_request
                      THEN remove_handler(close(s1, "stdin"), "stdin")
                      ELSE update_handler(s1, "stdin", { "E" })
                 ELSE s1

\* ProcessWrapper._handle_stdin_event; count is what os.write accepts
_handle_stdin_event(s, ev, count) ==
    IF "E" \in ev
    THEN _graceful_finish(remove_handler(close(s, "stdin"), "stdin"))
    ELSE LET n  == Min(count, Len(s.process_input_buffer))
             s1 == IF s.process_input_buffer # << >>
                   THEN IF s.closed["stdin"] THEN raise(s, "OSError")
                        ELSE IF ~inOpen THEN raise(s, "EPIPE")
                        ELSE [ s EXCEPT !.stdin_written = @ \o Take(s.process_input_buffer, n),
                                        !.process_input_buffer = Drop(@, n) ]
                   ELSE s
         IN IF s1.exc # "none" THEN s1
            ELSE IF s1.process_input_buffer = << >>
                 THEN IF s1.got_request
                      THEN remove_handler(close(s1, "stdin"), "stdin")
                      ELSE update_handler(s1, "stdin", { "E" })
                 ELSE s1

\* ProcessWrapper._handle_stdout_event
_handle_stdout_event(s, ev) ==
    LET afterRead ==
          IF "R" \notin ev THEN s
          ELSE IF http11
          THEN LET head == IF ~s.headers_sent
                           THEN Head200Chunked \o
                                (IF output_prelude # << >> THEN Chunk(output_prelude) ELSE << >>)
                           ELSE << >>
                   s1 == IF ~s.headers_sent
                         THEN [ s EXCEPT !.sent_chunks = TRUE, !.headers_sent = TRUE ]
                         ELSE s
                   nread == IF "E" \in ev THEN Len(s.outPipe) ELSE Min(BlockSize, Len(s.outPipe))
                   payload == Take(s.outPipe, nread)
               IN write([ s1 EXCEPT !.outPipe = Drop(@, nread) ], head \o Chunk(payload))
          ELSE LET payload == s.outPipe
                   s1 == [ s EXCEPT !.outPipe = << >> ]
               IN IF ~s.headers_sent
                  THEN write([ s1 EXCEPT !.headers_sent = TRUE ],
                             Head200Length(Len(payload)) \o output_prelude \o payload)
                  ELSE write(s1, payload)
    IN IF "E" \in ev
       THEN _graceful_finish(remove_handler(close(afterRead, "stdout"), "stdout"))
       ELSE afterRead

\* _handle_stderr_event without the test of headers_sent: every readable event
\* on stderr answers with a 500 head
_handle_stderr_event_always_500(s, ev) ==
    LET afterRead ==
          IF "R" \notin ev THEN s
          ELSE LET payload == s.errPipe
                   s1 == [ s EXCEPT !.errPipe = << >> ]
               IN write([ s1 EXCEPT !.headers_sent = TRUE ],
                        Head500(Len(payload)) \o payload)
    IN IF "E" \in ev
       THEN _graceful_finish(remove_handler(close(afterRead, "stderr"), "stderr"))
       ELSE afterRead

\* ProcessWrapper._handle_stderr_event
_handle_stderr_event(s, ev) ==
    LET afterRead ==
          IF "R" \notin ev THEN s
          ELSE LET payload == s.errPipe
                   s1 == [ s EXCEPT !.errPipe = << >> ]
               IN IF ~s.headers_sent
                  THEN write([ s1 EXCEPT !.headers_sent = TRUE ],
                             Head500(Len(payload)) \o payload)
                  ELSE write(s1, payload)
    IN IF "E" \in ev
       THEN _graceful_finish(remove_handler(close(afterRead, "stderr"), "stderr"))
       ELSE afterRead

----------------------------------------------------------------------------
\* Request decoding: gzip and the chunk reader

\* A small stream codec stands for gzip: a two-byte magic, then one code per byte,
\* "zr" repeating the byte decoded last (so decoding carries state across calls).
GzipMagic == << "1f", "8b" >>

NewDecompressor == [ hdr |-> 0, last |-> "" ]

Literal(code) == CASE code = "za" -> "a" [] code = "zb" -> "b" [] OTHER -> ""

\* zlib decompressobj.decompress(data): [ out, z, err ]
RECURSIVE decompress(_, _)
decompress(z, data) ==
    IF data = << >> THEN [ out |-> << >>, z |-> z, err |-> FALSE ]
    ELSE LET c == Head(data) IN
         IF z.hdr < 2
         THEN IF c = GzipMagic[z.hdr + 1]
              THEN decompress([ z EXCEPT !.hdr = @ + 1 ], Tail(data))
              ELSE [ out |-> << >>, z |-> z, err |-> TRUE ]
         ELSE LET byte == IF c = "zr" THEN z.last ELSE Literal(c) IN
              IF byte = "" THEN [ out |-> << >>, z |-> z, err |-> TRUE ]
              ELSE LET r == decompress([ z EXCEPT !.last = byte ], Tail(data))
                   IN [ r EXCEPT !.out = << byte >> \o @ ]

IsCRLF(buf, i) == i >= 1 /\ i < Len(buf) /\ buf[i] = "CR" /\ buf[i + 1] = "LF"

HasCRLF(buf) == \E i \in 1 .. Len(buf) : IsCRLF(buf, i)

FirstCRLF(buf) == CHOOSE i \in 1 .. Len(buf) :
                     IsCRLF(buf, i) /\ \A j \in 1 .. (i - 1) : ~IsCRLF(buf, j)

EndsWithCRLF(data) == IsCRLF(data, Len(data) - 1)

HexValue(d) == CHOOSE v \in 0 .. 15 : HexDigit[v + 1] = d

IsHexDigit(d) == \E v \in 0 .. 15 : HexDigit[v + 1] = d

\* int(text, 16); -1 stands for ValueError
RECURSIVE ParseHex(_)
ParseHex(text) ==
    IF text = << >> \/ \E i \in 1 .. Len(text) : ~IsHexDigit(text[i]) THEN -1
    ELSE IF Len(text) = 1 THEN HexValue(text[1])
    ELSE 16 * ParseHex(SubSeq(text, 1, Len(text) - 1)) + HexValue(text[Len(text)])

\* text.split(';')[0]
BeforeSemicolon(text) ==
    IF \E i \in 1 .. Len(text) : text[i] = ";"
    THEN SubSeq(text, 1, (CHOOSE i \in 1 .. Len(text) :
                            text[i] = ";" /\ \A j \in 1 .. (i - 1) : text[j] # ";") - 1)
    ELSE text

\* IOStream._run_callback: an exception out of a read callback closes the stream
\* and is raised again
_run_callback(s) == IF s.exc # "none" THEN [ s EXCEPT !.stream_closed = TRUE ] ELSE s

\* ioloop.add_callback(self.read_chunks)
add_callback(s) == [ s EXCEPT !.cb_next = @ + 1 ]

\* _chunk_data that leaves the interest of the stdin handler as it is: no
\* update_handler when the chunk has put bytes in the buffer
_chunk_data_no_wakeup(s, data) ==
    IF ~EndsWithCRLF(data) THEN raise(s, "AssertionError")
    ELSE LET payload == SubSeq(data, 1, Len(data) - 2)
             s1 == IF gzipReq
                   THEN IF ~s.gzip_header_seen /\ Take(data, 2) # GzipMagic
                        THEN raise(s, "AssertionError")
                        ELSE LET d == decompress(s.gzip_decompressor, payload) IN
                             IF d.err
                             THEN raise([ s EXCEPT !.gzip_header_seen = TRUE ], "zlib.error")
                             ELSE [ s EXCEPT !.gzip_header_seen = TRUE,
                                             !.gzip_decompressor = d.z,
                                             !.process_input_buffer = @ \o d.out ]
                   ELSE [ s EXCEPT !.process_input_buffer = @ \o payload ]
             s2 == [ s1 EXCEPT !.got_chunk = TRUE ]
         IN IF s1.exc # "none" THEN s1
            ELSE add_callback(s2)

\* ProcessWrapper._chunk_data
_chunk_data(s, data) ==
    IF ~EndsWithCRLF(data) THEN raise(s, "AssertionError")
    ELSE LET payload == SubSeq(data, 1, Len(data) - 2)
             s1 == IF gzipReq
                   THEN IF ~s.gzip_header_seen /\ Take(data, 2) # GzipMagic
                        THEN raise(s, "AssertionError")
                        ELSE LET d == decompress(s.gzip_decompressor, payload) IN
                             IF d.err
                             THEN raise([ s EXCEPT !.gzip_header_seen = TRUE ], "zlib.error")
                             ELSE [ s EXCEPT !.gzip_header_seen = TRUE,
                                             !.gzip_decompressor = d.z,
                                             !.process_input_buffer = @ \o d.out ]
                   ELSE [ s EXCEPT !.process_input_buffer = @ \o payload ]
             s2 == [ s1 EXCEPT !.got_chunk = TRUE ]
             s3 == IF s2.process_input_buffer # << >>
                   THEN update_handler(s2, "stdin", { "W", "E" })
                   ELSE s2
         IN IF s1.exc # "none" THEN s1
            ELSE IF s3.exc # "none" THEN s3
            ELSE add_callback(s3)

\* IOStream.read_bytes(n, self._chunk_data)
read_bytes(s, n) ==
    IF s.rd.kind # "none" THEN raise(s, "AlreadyReading")
    ELSE IF Len(s.sbuf) >= n
    THEN _run_callback(_chunk_data([ s EXCEPT !.sbuf = Drop(@, n) ], Take(s.sbuf, n)))
    ELSE IF s.stream_closed THEN raise(s, "IOError")
    ELSE IF peer_gone THEN [ s EXCEPT !.stream_closed = TRUE ]
    ELSE [ s EXCEPT !.rd = [ kind |-> "bytes", n |-> n ] ]

\* ProcessWrapper._chunk_length
_chunk_length(s, data) ==
    IF ~EndsWithCRLF(data) THEN raise(s, "AssertionError")
    ELSE LET length == ParseHex(BeforeSemicolon(SubSeq(data, 1, Len(data) - 2))) IN
         IF length < 0 THEN raise(s, "ValueError")
         ELSE IF length # 0 THEN read_bytes(s, length + 2)
         ELSE update_handler([ s EXCEPT !.got_request = TRUE ], "stdin", { "W", "E" })

\* IOStream.read_until("\r\n", self._chunk_length)
read_until(s) ==
    IF s.rd.kind # "none" THEN raise(s, "AlreadyReading")
    ELSE IF HasCRLF(s.sbuf)
    THEN LET n == FirstCRLF(s.sbuf) + 1 IN
         _run_callback(_chunk_length([ s EXCEPT !.sbuf = Drop(@, n) ], Take(s.sbuf, n)))
    ELSE IF s.stream_closed THEN raise(s, "IOError")
    ELSE IF peer_gone THEN [ s EXCEPT !.stream_closed = TRUE ]
    ELSE [ s EXCEPT !.rd = [ kind |-> "until", n |-> 0 ] ]

\* ProcessWrapper.read_chunks: the loop
RECURSIVE read_chunks_loop(_)
read_chunks_loop(s) ==
    IF s.got_request THEN s
    ELSE LET s1 == read_until([ s EXCEPT !.reading_chunks = TRUE, !.got_chunk = FALSE ]) IN
         IF s1.exc # "none" THEN s1
         ELSE LET s2 == [ s1 EXCEPT !.reading_chunks = FALSE ] IN
              IF s2.got_chunk THEN read_chunks_loop(s2) ELSE s2

\* ProcessWrapper.read_chunks
read_chunks(s) ==
    IF s.reading_chunks /\ s.got_chunk THEN s ELSE read_chunks_loop(s)

\* the read outstanding on the stream can complete from the bytes arrived
Satisfiable(s) ==
    CASE s.rd.kind = "until" -> HasCRLF(s.sbuf)
      [] s.rd.kind = "bytes" -> Len(s.sbuf) >= s.rd.n
      [] OTHER -> FALSE

\* IOStream._handle_events on the connection: completes the outstanding read and
\* runs its callback, or finds the peer gone and closes the stream
_handle_conn_event(s) ==
    LET s0 == [ s EXCEPT !.rd = [ kind |-> "none", n |-> 0 ] ] IN
    IF s.rd.kind = "until" /\ HasCRLF(s.sbuf)
    THEN LET n == FirstCRLF(s.sbuf) + 1 IN
         _run_callback(_chunk_length([ s0 EXCEPT !.sbuf = Drop(@, n) ], Take(s.sbuf, n)))
    ELSE IF s.rd.kind = "bytes" /\ Len(s.sbuf) >= s.rd.n
    THEN _run_callback(_chunk_data([ s0 EXCEPT !.sbuf = Drop(@, s.rd.n) ], Take(s.sbuf, s.rd.n)))
    ELSE IF peer_gone THEN [ s EXCEPT !.stream_closed = TRUE ]
    ELSE s

----------------------------------------------------------------------------
\* Actions

\* the variables a bridge operation leaves behind
Commit(s) ==
    /\ headers_sent' = s.headers_sent
    /\ sent_chunks' = s.sent_chunks
    /\ got_request' = s.got_request
    /\ process_input_buffer' = s.process_input_buffer
    /\ closed' = s.closed
    /\ handlers' = s.handlers
    /\ events' = s.events
    /\ client' = s.client
    /\ finish_count' = s.finish_count
    /\ outPipe' = s.outPipe
    /\ errPipe' = s.errPipe
    /\ stdin_written' = s.stdin_written
    /\ reading_chunks' = s.reading_chunks
    /\ got_chunk' = s.got_chunk
    /\ gzip_header_seen' = s.gzip_header_seen
    /\ gzip_decompressor' = s.gzip_decompressor
    /\ sbuf' = s.sbuf
    /\ rd' = s.rd
    /\ stream_closed' = s.stream_closed
    /\ cb_now' = s.cb_now
    /\ cb_next' = s.cb_next
    /\ raised' = IF s.exc = "none" THEN raised ELSE raised \cup { s.exc }

\* IOLoop: when the batch is handled the next iteration starts and takes the
\* callbacks added meanwhile
EndBatch(s) ==
    IF s.events = NoEvents THEN [ s EXCEPT !.cb_now = s.cb_next, !.cb_next = 0 ] ELSE s

\* the child side of the pipes, the client side of the connection
envVars == << outSent, outEOF, errSent, errEOF, inOpen, wire, peer_gone >>

\* ProcessWrapper.__init__
ProcessWrapperInit ==
    /\ phase = "new"
    /\ \/ \* the child is gone already at the spawn check
          /\ phase' = "failed"
          /\ Commit(raise(St, "HTTPError"))
          /\ outEOF' = TRUE /\ errEOF' = TRUE /\ inOpen' = FALSE
          /\ UNCHANGED << reqVars, blocked, outSent, errSent, wire, peer_gone >>
       \/ LET s0 == [ St EXCEPT !.handlers = [ stdout |-> { "R", "E" },
                                               stderr |-> { "R", "E" },
                                               stdin  |-> { "W", "E" } ] ]
              s1 == IF method # "POST" THEN [ s0 EXCEPT !.got_request = TRUE ]
                    ELSE IF chunkedReq
                    THEN read_chunks(write(s0, Continue100))
                    ELSE IF gzipReq
                    THEN IF Take(body, 2) # GzipMagic THEN raise(s0, "AssertionError")
                         ELSE LET d == decompress(s0.gzip_decompressor, body) IN
                              IF d.err THEN raise(s0, "zlib.error")
                              ELSE [ s0 EXCEPT !.gzip_decompressor = d.z,
                                               !.process_input_buffer = d.out,
                                               !.got_request = TRUE ]
                    ELSE [ s0 EXCEPT !.process_input_buffer = body, !.got_request = TRUE ]
          IN /\ Commit(EndBatch(s1))
             /\ phase' = IF s1.exc = "none" THEN "running" ELSE "failed"
             /\ UNCHANGED << reqVars, blocked, envVars >>

\* events the poll reports for a registered, open descriptor
Ready(fd) ==
    CASE fd = "conn" -> IF ~stream_closed /\ rd.kind # "none"
                           /\ (Satisfiable(St) \/ peer_gone)
                        THEN { "R" } ELSE {}
      [] OTHER ->
         IF handlers[fd] = {} \/ closed[fd] THEN {}
         ELSE CASE fd = "stdout" -> (IF outPipe # << >> THEN { "R" } ELSE {})
                                    \cup (IF outEOF THEN { "E" } ELSE {})
                [] fd = "stderr" -> (IF errPipe # << >> THEN { "R" } ELSE {})
                                    \cup (IF errEOF THEN { "E" } ELSE {})
                [] fd = "stdin"  -> (IF inOpen /\ "W" \in handlers[fd] THEN { "W" } ELSE {})
                                    \cup (IF ~inOpen THEN { "E" } ELSE {})

\* IOLoop: one poll, its events form the batch; it does not wait when callbacks
\* are pending
Poll ==
    /\ phase # "new"
    /\ blocked = "none"
    /\ events = NoEvents
    /\ cb_now = 0
    /\ cb_next > 0 \/ \E fd \in LoopFds : Ready(fd) # {}
    /\ Commit(EndBatch([ St EXCEPT !.events = [ fd \in LoopFds |-> Ready(fd) ] ]))
    /\ UNCHANGED << reqVars, phase, blocked, envVars >>

\* IOLoop runs a callback: read_chunks, added by _chunk_data
RunCallback ==
    /\ blocked = "none"
    /\ events = NoEvents
    /\ cb_now > 0
    /\ Commit(read_chunks([ St EXCEPT !.cb_now = @ - 1 ]))
    /\ UNCHANGED << reqVars, phase, blocked, envVars >>

\* IOLoop hands the connection's event of the batch to the stream
HandleConn ==
    /\ blocked = "none"
    /\ events["conn"] # {}
    /\ Commit(EndBatch(_handle_conn_event([ St EXCEPT !.events["conn"] = {} ])))
    /\ UNCHANGED << reqVars, phase, blocked, envVars >>

\* IOLoop hands the stdin event of the batch to its handler
HandleStdin ==
    /\ blocked = "none"
    /\ events["stdin"] # {}
    /\ \E count \in 1 .. MaxWrite :
          Commit(EndBatch(_handle_stdin_event([ St EXCEPT !.events["stdin"] = {} ],
                                              events["stdin"], count)))
    /\ UNCHANGED << reqVars, phase, blocked, envVars >>

\* IOLoop hands the stdout event of the batch to its handler; the HTTP/1.0
\* branch reads to end-of-file and holds the loop until the child closes stdout
HandleStdout ==
    /\ blocked \in { "none", "stdout" }
    /\ events["stdout"] # {}
    /\ IF "R" \in events["stdout"] /\ ~http11 /\ ~outEOF
       THEN /\ blocked = "none"
            /\ blocked' = "stdout"
            /\ Commit(St)
       ELSE /\ Commit(EndBatch(_handle_stdout_event([ St EXCEPT !.events["stdout"] = {} ],
                                                    events["stdout"])))
            /\ blocked' = "none"
    /\ UNCHANGED << reqVars, phase, envVars >>

\* IOLoop hands the stderr event of the batch to its handler; process.stderr.read()
\* holds the loop until the child closes stderr
HandleStderr ==
    /\ blocked \in { "none", "stderr" }
    /\ events["stderr"] # {}
    /\ IF "R" \in events["stderr"] /\ ~errEOF
       THEN /\ blocked = "none"
            /\ blocked' = "stderr"
            /\ Commit(St)
       ELSE /\ Commit(EndBatch(_handle_stderr_event([ St EXCEPT !.events["stderr"] = {} ],
                                                    events["stderr"])))
            /\ blocked' = "none"
    /\ UNCHANGED << reqVars, phase, envVars >>

\* the child writes a byte to stdout
ChildWriteOut ==
    /\ phase = "running"
    /\ ~outEOF
    /\ outSent < outMax
    /\ Commit([ St EXCEPT !.outPipe = Append(@, OutData[outSent + 1]) ])
    /\ outSent' = outSent + 1
    /\ UNCHANGED << reqVars, phase, blocked, outEOF, errSent, errEOF, inOpen, wire, peer_gone >>

\* the child writes a byte to stderr
ChildWriteErr ==
    /\ phase = "running"
    /\ ~errEOF
    /\ errSent < errMax
    /\ Commit([ St EXCEPT !.errPipe = Append(@, ErrData[errSent + 1]) ])
    /\ errSent' = errSent + 1
    /\ UNCHANGED << reqVars, phase, blocked, outSent, outEOF, errEOF, inOpen, wire, peer_gone >>

\* the child closes one of its ends (all three when it exits)
ChildClose ==
    /\ phase # "new"
    /\ \E fd \in Fds :
          /\ CASE fd = "stdout" -> ~outEOF
               [] fd = "stderr" -> ~errEOF
               [] fd = "stdin"  -> inOpen
          /\ outEOF' = (outEOF \/ fd = "stdout")
          /\ errEOF' = (errEOF \/ fd = "stderr")
          /\ inOpen' = (inOpen /\ fd # "stdin")
    /\ Commit(St)
    /\ UNCHANGED << reqVars, phase, blocked, outSent, errSent, wire, peer_gone >>

\* the bytes of the wire up to the end of its first line (all of it without one)
Segment(w) ==
    IF \E i \in 1 .. Len(w) : w[i] = "LF"
    THEN CHOOSE i \in 1 .. Len(w) : w[i] = "LF" /\ \A j \in 1 .. (i - 1) : w[j] # "LF"
    ELSE Len(w)

\* the next bytes of the request body arrive on the connection; a read of the
\* stream sees lines and blocks only when they are complete, so the bytes come
\* a line at a time
ClientSend ==
    /\ phase # "new"
    /\ ~peer_gone
    /\ wire # << >>
    /\ Commit([ St EXCEPT !.sbuf = @ \o Take(wire, Segment(wire)) ])
    /\ wire' = Drop(wire, Segment(wire))
    /\ UNCHANGED << reqVars, phase, blocked, outSent, outEOF, errSent, errEOF, inOpen, peer_gone >>

\* the client disconnects
ClientDisconnect ==
    /\ phase # "new"
    /\ chunkedReq
    /\ ~peer_gone
    /\ peer_gone' = TRUE
    /\ wire' = << >>
    /\ Commit(St)
    /\ UNCHANGED << reqVars, phase, blocked, outSent, outEOF, errSent, errEOF, inOpen >>

\* the fields of a bridge before its construction, the child not yet started
BridgeNew ==
    /\ phase = "new"
    /\ headers_sent = FALSE /\ sent_chunks = FALSE /\ got_request = FALSE
    /\ process_input_buffer = << >>
    /\ closed = [ fd \in Fds |-> FALSE ]
    /\ handlers = NoHandlers
    /\ reading_chunks = FALSE /\ got_chunk = FALSE
    /\ gzip_header_seen = FALSE
    /\ gzip_decompressor = NewDecompressor
    /\ peer_gone = FALSE /\ sbuf = << >> /\ stream_closed = FALSE
    /\ rd = [ kind |-> "none", n |-> 0 ]
    /\ cb_now = 0 /\ cb_next = 0
    /\ events = NoEvents
    /\ blocked = "none"
    /\ client = << >> /\ finish_count = 0
    /\ raised = {}
    /\ outPipe = << >> /\ outSent = 0 /\ outEOF = FALSE
    /\ errPipe = << >> /\ errSent = 0 /\ errEOF = FALSE
    /\ inOpen = TRUE
    /\ stdin_written = << >>

----------------------------------------------------------------------------
\* The request handlers (gittornado) and the hooks of the server (gittornado.server)
\*
\* A text the code slices is spelt byte by byte; a text it only compares or
\* copies (a path segment, a user name, a password, a base64 word) is one token.

GitPrefix == << "g", "i", "t", "-" >>
UploadPack == << "u", "p", "l", "o", "a", "d", "-", "p", "a", "c", "k" >>
ReceivePack == << "r", "e", "c", "e", "i", "v", "e", "-", "p", "a", "c", "k" >>
GitUploadPack == GitPrefix \o UploadPack
GitReceivePack == GitPrefix \o ReceivePack

\* text.lstrip(c), text.rstrip(c), text.strip(c)
RECURSIVE lstrip(_, _)
lstrip(text, c) ==
    IF text # << >> /\ Head(text) = c THEN lstrip(Tail(text), c) ELSE text

RECURSIVE rstrip(_, _)
rstrip(text, c) ==
    IF text # << >> /\ text[Len(text)] = c
    THEN rstrip(SubSeq(text, 1, Len(text) - 1), c) ELSE text

strip(text, c) == rstrip(lstrip(text, c), c)

\* the place of the first c in text, 0 without one
find(text, c) ==
    IF \E i \in 1 .. Len(text) : text[i] = c
    THEN CHOOSE i \in 1 .. Len(text) : text[i] = c /\ \A j \in 1 .. (i - 1) : text[j] # c
    ELSE 0

\* text.split(sep): the pieces between the separators, one piece at least
RECURSIVE split(_, _)
split(text, sep) ==
    IF find(text, sep) = 0 THEN << text >>
    ELSE << SubSeq(text, 1, find(text, sep) - 1) >>
         \o split(SubSeq(text, find(text, sep) + 1, Len(text)), sep)

\* text.split(sep, 1): cut at the first separator only
split1(text, sep) ==
    IF find(text, sep) = 0 THEN << text >>
    ELSE << SubSeq(text, 1, find(text, sep) - 1),
            SubSeq(text, find(text, sep) + 1, Len(text)) >>

\* text.lower(), on the scheme words the headers use
lower(text) ==
    [ i \in 1 .. Len(text) |->
        IF text[i] \in { "Basic", "BASIC" } THEN "basic" ELSE text[i] ]

\* text.rjust(width, fill)
RECURSIVE rjust(_, _, _)
rjust(text, width, fill) ==
    IF Len(text) >= width THEN text ELSE rjust(<< fill >> \o text, width, fill)

\* request.path.strip('/').split('/')
pathlets(req) == split(strip(req.path, "/"), "/")

\* options.gitbase, absolute, as the components of the path; the file system:
\* the directories there are, and one symbolic link under the base that points
\* out of it
gitbase == << << "srv" >>, << "git" >> >>

Directories == { << >>, << << "srv" >> >>, << << "etc" >> >>, gitbase,
                 Append(gitbase, << "repo.git" >>), Append(gitbase, << "other.git" >>) }

\* os.path.realpath: the path with its symbolic links followed
realpath(path) ==
    IF path = Append(gitbase, << "link" >>) THEN << << "etc" >> >> ELSE path

\* os.path.exists follows symbolic links
exists(path) == realpath(path) \in Directories

\* os.path.join(base, segment), the segment holding no '/'
join(base, segment) == Append(base, segment)

\* os.path.abspath of an absolute path: '' and '.' dropped, '..' taken lexically
RECURSIVE normpath(_, _)
normpath(done, rest) ==
    IF rest = << >> THEN done
    ELSE IF Head(rest) \in { << >>, << "." >> } THEN normpath(done, Tail(rest))
    ELSE IF Head(rest) = << ".." >>
    THEN normpath(SubSeq(done, 1, Len(done) - 1), Tail(rest))
    ELSE normpath(Append(done, Head(rest)), Tail(rest))

abspath(path) == normpath(<< >>, path)

\* path.startswith(base): the lookup joins one segment to the base, so the
\* result is the base, its parent or a child of the base, and the prefix of the
\* text is the prefix of the components
startswith(path, base) ==
    Len(base) <= Len(path) /\ SubSeq(path, 1, Len(base)) = base

None == [ found |-> FALSE, path |-> << >> ]

\* server.gitlookup
gitlookup(req) ==
    LET path == abspath(join(gitbase, pathlets(req)[1])) IN
    IF ~startswith(path, abspath(gitbase)) THEN None
    ELSE IF exists(path) THEN [ found |-> TRUE, path |-> path ]
    ELSE None

\* the policy file: its section of users (name, password) and of access
\* (name, repositories separated by commas)
accessfile ==
    [ users  |-> { << << "alice" >>, << "secret" >> >>, << << "bob" >>, << "hunter2" >> >> },
      access |-> { << << "alice" >>, << "repo.git", ",", "priv.git" >> >> } ]

\* ConfigParser.has_option, ConfigParser.get
has_option(section, option) == \E e \in accessfile[section] : e[1] = option

get(section, option) == (CHOOSE e \in accessfile[section] : e[1] = option)[2]

\* the base64 words the headers use and what they decode to
Base64Words == { "YWxpY2U", "Og", "c2VjcmV0", "Ym9i", "aHVudGVyMg", "Y2Fyb2w", "d3Jvbmc" }

Base64Word(w) ==
    CASE w = "YWxpY2U" -> "alice"
      [] w = "Og" -> ":"
      [] w = "c2VjcmV0" -> "secret"
      [] w = "Ym9i" -> "bob"
      [] w = "aHVudGVyMg" -> "hunter2"
      [] w = "Y2Fyb2w" -> "carol"
      [] w = "d3Jvbmc" -> "wrong"

\* text.decode('base64'): [ out, err ]; a character that is not of the alphabet
\* is skipped, a lone character "Y" is an incomplete quantum (Incorrect padding)
RECURSIVE decode_base64(_)
decode_base64(text) ==
    IF text = << >> THEN [ out |-> << >>, err |-> FALSE ]
    ELSE IF Head(text) = "Y" THEN [ out |-> << >>, err |-> TRUE ]
    ELSE LET r == decode_base64(Tail(text)) IN
         IF Head(text) \in Base64Words
         THEN [ r EXCEPT !.out = << Base64Word(Head(text)) >> \o @ ]
         ELSE r

\* server.auth: [ exc, perms ], perms the pair (read, write)
auth(req) ==
    LET author == req.authorization
        userpw_base64 == strip(Drop(strip(author.value, " "), 1), " ")
        decoded == decode_base64(userpw_base64)
        userpw == split1(decoded.out, ":")
        user == userpw[1]
        pw == userpw[2]
    IN IF ~author.present THEN [ exc |-> "none", perms |-> << TRUE, FALSE >> ]
       ELSE IF Take(lower(strip(author.value, " ")), 1) # << "basic" >>
       THEN [ exc |-> "none", perms |-> << TRUE, FALSE >> ]
       ELSE IF decoded.err THEN [ exc |-> "binascii.Error", perms |-> << FALSE, FALSE >> ]
       ELSE IF Len(userpw) # 2 THEN [ exc |-> "ValueError", perms |-> << FALSE, FALSE >> ]
       ELSE IF /\ has_option("users", user)
               /\ get("users", user) = pw
               /\ has_option("access", user)
       THEN [ exc |-> "none",
              perms |-> << TRUE, \E i \in 1 .. Len(split(get("access", user), ",")) :
                                     split(get("access", user), ",")[i] = pathlets(req)[1] >> ]
       ELSE [ exc |-> "none", perms |-> << TRUE, FALSE >> ]

\* BaseHandler.public_readble, BaseHandler.public_writable
public_readble == TRUE
public_writable == FALSE

Head401 == << "HTTP/1.1 401", "WWW-Authenticate: Basic", "CR", "LF" >>

\* server.auth_failed
auth_failed(r) == write(r, Head401 \o << "Authorization needed to access this repository" >>)

\* raise tornado.web.HTTPError(status)
HTTPError(r, status) == [ r EXCEPT !.exc = "HTTPError", !.status = status ]

\* BaseHandler.get_gitdir
get_gitdir(r) ==
    IF ~conf.gitlookup THEN HTTPError(r, "500")
    ELSE IF ~gitlookup(request).found THEN HTTPError(r, "404")
    ELSE [ r EXCEPT !.gitdir = gitlookup(request) ]

\* BaseHandler.check_auth
check_auth(r) ==
    IF conf.auth
    THEN IF auth(request).exc # "none"
         THEN [ r EXCEPT !.auth_called = TRUE, !.exc = auth(request).exc ]
         ELSE [ r EXCEPT !.auth_called = TRUE, !.perms = auth(request).perms ]
    ELSE [ r EXCEPT !.perms = << public_readble, public_writable >> ]

\* BaseHandler.enforce_perms with the test of the write permission left out
enforce_perms_write_unchecked(r, rpc) ==
    LET r1 == check_auth(r)
        read == r1.perms[1]
        denied == IF conf.auth_failed THEN finish(auth_failed(r1))
                  ELSE HTTPError(r1, "403")
    IN IF r1.exc # "none" THEN r1
       ELSE IF rpc \in { GitReceivePack, ReceivePack }
       THEN [ r1 EXCEPT !.allowed = TRUE ]
       ELSE IF rpc \in { GitUploadPack, UploadPack }
       THEN IF ~read THEN denied ELSE [ r1 EXCEPT !.allowed = TRUE ]
       ELSE HTTPError(r1, "400")

\* BaseHandler.enforce_perms: allowed is what it returns
enforce_perms(r, rpc) ==
    LET r1 == check_auth(r)
        read == r1.perms[1]
        write_ == r1.perms[2]
        denied == IF conf.auth_failed THEN finish(auth_failed(r1))
                  ELSE HTTPError(r1, "403")
    IN IF r1.exc # "none" THEN r1
       ELSE IF rpc \in { GitReceivePack, ReceivePack }
       THEN IF ~write_ THEN denied ELSE [ r1 EXCEPT !.allowed = TRUE ]
       ELSE IF rpc \in { GitUploadPack, UploadPack }
       THEN IF ~read THEN denied ELSE [ r1 EXCEPT !.allowed = TRUE ]
       ELSE HTTPError(r1, "400")

\* ProcessWrapper(request, command, headers, output_prelude): the call, with
\* what it is given
ProcessWrapper(r, command, content_type, prelude) ==
    [ r EXCEPT !.spawned = TRUE, !.command = command, !.content_type = content_type,
               !.prelude = prelude ]

\* RPCHandler.post
post(r) ==
    LET r1 == get_gitdir(r)
        rpc == pathlets(request)[Len(pathlets(request))]
        r2 == enforce_perms(r1, rpc)
    IN IF r1.exc # "none" THEN r1
       ELSE IF ~r2.allowed THEN r2
       ELSE ProcessWrapper(r2, << << "git" >>, Drop(rpc, 4), << "--stateless-rpc" >>,
                                  r2.gitdir.path >>,
                           << "application/x-git-" >> \o Drop(rpc, 4) \o << "-result" >>,
                           << >>)

ServiceText == << "#", " ", "s", "e", "r", "v", "i", "c", "e", "=", "g", "i", "t", "-" >>

FlushPacket == << "0", "0", "0", "0" >>

\* InfoRefsHandler.get; request.service is the value of the query parameter
\* 'service', empty when there is none
get_(r) ==
    LET r1 == get_gitdir(r)
        rpc == IF request.service = << >> THEN GitUploadPack ELSE request.service
        r2 == enforce_perms(r1, rpc)
        prelude == ServiceText \o Drop(rpc, 4)
    IN IF r1.exc # "none" THEN r1
       ELSE IF ~r2.allowed THEN r2
       ELSE ProcessWrapper(r2, << << "git" >>, Drop(rpc, 4), << "--stateless-rpc" >>,
                                  << "--advertise-refs" >>, r2.gitdir.path >>,
                           << "application/x-git-" >> \o Drop(rpc, 4) \o << "-advertisement" >>,
                           rjust(Hex(Len(prelude) + 4), 4, "0") \o prelude \o FlushPacket)

\* RequestHandler._execute: an exception out of the handler is answered with
\* its status, 500 when it is no HTTPError
_execute(r) ==
    IF r.exc \in { "none", "HTTPError" } THEN [ r EXCEPT !.done = TRUE ]
    ELSE [ r EXCEPT !.done = TRUE, !.status = "500" ]

NoRequest == [ handler |-> "none", path |-> << >>, service |-> << >>,
               authorization |-> [ present |-> FALSE, value |-> << >> ] ]

NoConf == [ auth |-> FALSE, auth_failed |-> FALSE, gitlookup |-> FALSE ]

NoReply == [ done |-> FALSE, exc |-> "none", status |-> "none", client |-> << >>,
             finish_count |-> 0, gitdir |-> None, auth_called |-> FALSE,
             perms |-> << FALSE, FALSE >>, allowed |-> FALSE, spawned |-> FALSE,
             command |-> << >>, content_type |-> << >>, prelude |-> << >> ]

\* tornado hands a POST to RPCHandler.post
RPCHandlerPost ==
    /\ request.handler = "RPCHandler"
    /\ ~reply.done
    /\ reply' = _execute(post(reply))
    /\ UNCHANGED << request, conf, bridgeVars >>

\* tornado hands a GET to InfoRefsHandler.get
InfoRefsHandlerGet ==
    /\ request.handler = "InfoRefsHandler"
    /\ ~reply.done
    /\ reply' = _execute(get_(reply))
    /\ UNCHANGED << request, conf, bridgeVars >>

\* the routes of the application: '/.*/git-.*' and '/.*/info/refs'
MatchesRPC(path) ==
    /\ path # << >> /\ path[1] = "/"
    /\ \E i \in 2 .. Len(path) :
          /\ path[i] = "/" /\ i + 4 <= Len(path)
          /\ SubSeq(path, i + 1, i + 4) = GitPrefix

MatchesInfoRefs(path) ==
    /\ Len(path) >= 5 /\ path[1] = "/"
    /\ SubSeq(path, Len(path) - 3, Len(path)) = << "/", "info", "/", "refs" >>

\* the first segments of the paths, the last segments of the RPC paths, the
\* values of the 'service' parameter
Segments == { << "repo.git" >>, << "other.git" >>, << "nope.git" >>,
              << ".." >>, << "." >>, << "link" >> }

UnknownRpc == GitPrefix \o << "f", "o", "o" >>

RpcTails == { GitUploadPack, GitReceivePack, UnknownRpc,
              GitPrefix \o << "x", "/" >> \o UploadPack,
              GitPrefix \o << "x", "/" >> \o ReceivePack }

Services == { << >>, GitUploadPack, GitReceivePack, UploadPack, ReceivePack, UnknownRpc }

\* Authorization headers: user and password as base64 words
BasicOf(words) == << "Basic", " " >> \o words

Authorizations ==
    { [ present |-> FALSE, value |-> << >> ] } \cup
    { [ present |-> TRUE, value |-> v ] : v \in
        { BasicOf(<< "YWxpY2U", "Og", "c2VjcmV0" >>),
          << " ", "BASIC", " ", " ", "YWxpY2U", "Og", "c2VjcmV0", " " >>,
          << "Beare", "r", " ", "YWxpY2U", "Og", "c2VjcmV0" >>,
          BasicOf(<< "YWxpY2U", "Og", "d3Jvbmc" >>),
          BasicOf(<< "Ym9i", "Og", "aHVudGVyMg" >>),
          BasicOf(<< "Y2Fyb2w", "Og", "c2VjcmV0" >>),
          BasicOf(<< "YWxpY2U" >>),
          BasicOf(<< "YWxpY2U", "Og", "c2VjcmV0", "Y" >>),
          BasicOf(<< "!", "!" >>),
          << "Basic" >> } }

Requests ==
    { [ handler |-> "RPCHandler", path |-> << "/" >> \o seg \o << "/" >> \o tail,
        service |-> << >>, authorization |-> a ] :
        seg \in Segments, tail \in RpcTails, a \in Authorizations }
    \cup
    { [ handler |-> "InfoRefsHandler", path |-> << "/" >> \o seg \o << "/", "info", "/", "refs" >>,
        service |-> s, authorization |-> a ] :
        seg \in Segments, s \in Services, a \in Authorizations }

WebInit ==
    /\ request \in { r \in Requests :
                       \/ r.handler = "RPCHandler" /\ MatchesRPC(r.path)
                       \/ r.handler = "InfoRefsHandler" /\ MatchesInfoRefs(r.path) }
    /\ conf \in [ auth : BOOLEAN, auth_failed : BOOLEAN, gitlookup : BOOLEAN ]
    /\ reply = NoReply
    /\ method = (IF request.handler = "RPCHandler" THEN "POST" ELSE "GET")
    /\ http11 = TRUE /\ chunkedReq = FALSE /\ gzipReq = FALSE
    /\ body = << >> /\ request_wire = << >> /\ wire = << >>
    /\ output_prelude = << >>
    /\ outMax = 0 /\ errMax = 0
    /\ BridgeNew

WebNext ==
    \/ RPCHandlerPost
    \/ InfoRefsHandlerGet

WebSpec == WebInit /\ [][WebNext]_vars

----------------------------------------------------------------------------
\* Requests

Prelude == << "p1", "p2" >>

PlainBody == << "a", "b" >>
\* decodes to << "a", "a" >>
GzipBody == GzipMagic \o << "za", "zr" >>

LastChunk == << "0", "CR", "LF", "CR", "LF" >>

\* a body sent as one chunk; as two chunks, the first of k bytes
Wire1(payload) == Chunk(payload) \o LastChunk
Wire2(payload, k) == Chunk(Take(payload, k)) \o Chunk(Drop(payload, k)) \o LastChunk

PlainWires == { LastChunk, Wire1(PlainBody), Wire2(PlainBody, 1),
                << "2", ";", "x", "CR", "LF" >> \o PlainBody \o << "CR", "LF" >> \o LastChunk,
                << "g", "CR", "LF" >>,
                << "1", "CR", "LF" >> \o PlainBody \o << "CR", "LF" >> \o LastChunk }

GzipWires == { Wire1(GzipBody), Wire2(GzipBody, 1), Wire2(GzipBody, 2), Wire2(GzipBody, 3),
               Wire1(<< "xx", "8b", "za" >>) }

Init ==
    /\ method \in { "GET", "POST" }
    /\ http11 \in BOOLEAN
    /\ chunkedReq \in (IF method = "POST" /\ http11 THEN BOOLEAN ELSE { FALSE })
    /\ gzipReq \in (IF method = "POST" THEN BOOLEAN ELSE { FALSE })
    /\ body \in (IF method = "POST" /\ ~chunkedReq
                 THEN (IF gzipReq THEN { GzipBody, << "xx" >> } ELSE { << >>, PlainBody })
                 ELSE { << >> })
    /\ request_wire \in (IF chunkedReq THEN (IF gzipReq THEN GzipWires ELSE PlainWires)
                         ELSE { << >> })
    /\ wire = request_wire
    /\ output_prelude = (IF method = "GET" THEN Prelude ELSE << >>)
    /\ outMax \in (IF chunkedReq THEN { 1 } ELSE { MaxOut })
    /\ errMax \in (IF chunkedReq THEN { 0 } ELSE { MaxErr })
    /\ BridgeNew
    /\ request = NoRequest /\ conf = NoConf /\ reply = NoReply

Next ==
    \/ ProcessWrapperInit
    \/ Poll
    \/ RunCallback
    \/ HandleConn
    \/ HandleStdin
    \/ HandleStdout
    \/ HandleStderr
    \/ ChildWriteOut
    \/ ChildWriteErr
    \/ ChildClose
    \/ ClientSend
    \/ ClientDisconnect

Spec == Init /\ [][Next]_vars

----------------------------------------------------------------------------
\* Reading the streams back

StatusLines == { "HTTP/1.1 200", "HTTP/1.0 200", "HTTP/1.1 500" }

\* the response proper: what was written after the interim 100 (Continue)
Response == IF chunkedReq /\ Len(client) >= Len(Continue100)
            THEN Drop(client, Len(Continue100)) ELSE client

StatusCount == Cardinality({ i \in 1 .. Len(client) : client[i] \in StatusLines })

\* the response body: what follows the blank line that ends the head
ResponseBody == IF HasCRLF(Response) THEN Drop(Response, FirstCRLF(Response) + 1) ELSE << >>

\* a chunked stream decoded: [ out, ok ], ok when it ends with the last chunk
RECURSIVE Dechunk(_)
Dechunk(b) ==
    IF ~HasCRLF(b) THEN [ out |-> << >>, ok |-> FALSE ]
    ELSE LET i == FirstCRLF(b)
             n == ParseHex(BeforeSemicolon(Take(b, i - 1)))
             r == Drop(b, i + 1)
         IN IF n < 0 THEN [ out |-> << >>, ok |-> FALSE ]
            ELSE IF n = 0 THEN [ out |-> << >>, ok |-> (r = << "CR", "LF" >>) ]
            ELSE IF Len(r) < n + 2 \/ ~IsCRLF(r, n + 1) THEN [ out |-> << >>, ok |-> FALSE ]
            ELSE LET d == Dechunk(Drop(r, n + 2))
                 IN [ out |-> Take(r, n) \o d.out, ok |-> d.ok ]

\* what the child has written to stdout, to stderr
ChildStdout == SubSeq(OutData, 1, outSent)
ChildStderr == SubSeq(ErrData, 1, errSent)

\* the request body decoded: de-chunked, and through the gzip decoder when gzipped
DecodedBody ==
    LET raw == Dechunk(request_wire).out IN
    IF gzipReq THEN decompress(NewDecompressor, raw).out ELSE raw

\* the event loop at rest: no event of a batch left, no callback, and a poll that
\* reports nothing until the child or the client acts
Quiescent ==
    /\ blocked = "none" /\ events = NoEvents /\ cb_now = 0 /\ cb_next = 0
    /\ \A fd \in LoopFds : Ready(fd) = {}

AllClosed == closed["stdin"] /\ closed["stdout"] /\ closed["stderr"]

IsPrefix(a, b) == Len(a) <= Len(b) /\ SubSeq(b, 1, Len(a)) = a

----------------------------------------------------------------------------
\* Properties

\* C1: completion is idempotent: request.finish is called at most once, and once
\* it has been called nothing more is written to the client and finish is not
\* called again, whatever the order of the events of a poll batch.
C1_FinishOnce ==
    /\ [](finish_count <= 1)
    /\ [][finish_count >= 1 => (client' = client /\ finish_count' = finish_count)]_vars

\* C2: headers_sent goes from false to true once and never back; the client is
\* written exactly one final status line (200 or 500), present exactly when
\* headers_sent is set and by the time of finish, and nothing of the response
\* comes before it.
C2_HeadersOnce ==
    /\ [](/\ StatusCount <= 1
          /\ (headers_sent <=> StatusCount = 1)
          /\ (Response # << >> => Response[1] \in StatusLines)
          /\ (finish_count >= 1 => headers_sent))
    /\ [][headers_sent => headers_sent']_vars

\* the child wrote to stdout and to stderr, both were handled, the request is finished
C2_Witness ==
    /\ finish_count >= 1 /\ headers_sent /\ StatusCount = 1
    /\ outSent > 0 /\ errSent > 0 /\ outPipe = << >> /\ errPipe = << >>

\* C3: the request has been finished if and only if the child's stdin, stdout and
\* stderr are all three closed.
C3_FinishedIffAllClosed == (finish_count >= 1) <=> AllClosed

\* C4: for a chunked HTTP/1.1 response, when the request is finished the body
\* written to the client, de-chunked, is the prelude followed by every byte the
\* child wrote to stdout, in order.
C4_DechunkedIsStdout ==
    (sent_chunks /\ finish_count = 1) =>
        /\ Dechunk(ResponseBody).ok
        /\ Dechunk(ResponseBody).out = output_prelude \o ChildStdout

\* C5: for a chunked request, what has been written to the child's stdin (and
\* what is buffered for it) is at all times a prefix of the decoded request body,
\* and is the whole decoded body when the stdin writable handler closes stdin.
C5_StdinIsDecodedBody ==
    /\ [](chunkedReq => IsPrefix(stdin_written \o process_input_buffer, DecodedBody))
    /\ [][(/\ chunkedReq
           /\ ~closed["stdin"] /\ closed'["stdin"]
           /\ events["stdin"] = { "W" } /\ events'["stdin"] = {})
              => stdin_written' = DecodedBody]_vars

\* a gzipped body of two chunks was decoded, written in two writes and stdin closed
\* by the writable handler
C5_Witness ==
    /\ chunkedReq /\ gzipReq /\ request_wire = Wire2(GzipBody, 2)
    /\ got_request /\ closed["stdin"] /\ handlers["stdin"] = {} /\ inOpen
    /\ stdin_written = << "a", "a" >>

\* C6: when the child has closed stdout and stderr and never wrote a byte to
\* either, the bridge has written a complete 500 response with the body "did not
\* produce any data" and a matching Content-Length, and has finished the request.
C6_EmptyOutputIs500 ==
    (closed["stdout"] /\ closed["stderr"] /\ outSent = 0 /\ errSent = 0) =>
        /\ Response = Head500(Len(NoData)) \o NoData
        /\ finish_count >= 1

\* C7: when stderr became readable before any header was sent, the response
\* delivered by the time of finish is exactly one 500 response whose
\* Content-Length is the length of the stderr payload and whose body is that
\* payload, with no other byte after it.
C7_StderrFirstIsClean500 ==
    (finish_count >= 1 /\ Response # << >> /\ Response[1] = "HTTP/1.1 500") =>
        Response = Head500(Len(ChildStderr)) \o ChildStderr

\* C8: stderr bytes that become readable after the headers were sent are never
\* written to the client: a 200 response holds no stderr byte.
C8_LateStderrSuppressed ==
    (Response # << >> /\ Response[1] \in { "HTTP/1.1 200", "HTTP/1.0 200" }) =>
        \A i \in 1 .. Len(client) : \A j \in 1 .. Len(ErrData) : client[i] # ErrData[j]

\* C9: when the client disconnects during a chunked request before the request
\* is complete, the bridge does not come to rest with the child's stdin open: it
\* goes on to close the child's pipes and to finish, and never waits, with nothing
\* left to run, for chunks that cannot arrive.
C9_NoWaitOnDeadClient ==
    (chunkedReq /\ peer_gone /\ ~got_request /\ phase = "running" /\ Quiescent)
        => closed["stdin"]

\* C10: after a fatal bridge error (child gone at the spawn check, a failed
\* gzip-header or CRLF assertion, an unparsable chunk length) the child's three
\* pipes are closed and their handlers removed.
C10_FatalErrorReleasesAll ==
    (raised \cap { "HTTPError", "AssertionError", "ValueError" } # {}) =>
        /\ AllClosed
        /\ handlers = NoHandlers

\* the RPC a request names: the last segment of the path of a POST, the
\* 'service' parameter of a GET
RequestedRpc ==
    IF request.handler = "RPCHandler" THEN pathlets(request)[Len(pathlets(request))]
    ELSE IF request.service = << >> THEN GitUploadPack
    ELSE request.service

\* the status the client is answered with
ReplyStatus ==
    IF IsPrefix(<< "HTTP/1.1 401" >>, reply.client) THEN "401" ELSE reply.status

\* the permissions check_auth returned do not cover the RPC
Denied ==
    \/ RequestedRpc \in { GitReceivePack, ReceivePack } /\ ~reply.perms[2]
    \/ RequestedRpc \in { GitUploadPack, UploadPack } /\ ~reply.perms[1]

\* C11: a request that ends in a routing error (400, 401, 403, 404) has
\* constructed no ProcessWrapper, so no child was spawned; and when the
\* permissions returned for the request do not cover its RPC, the handler (with
\* the server's auth_failed hook) has written a 401 head with WWW-Authenticate,
\* has finished the request once and has not started the bridge.
C11_RoutingErrorSpawnsNothing ==
    reply.done =>
        /\ (ReplyStatus \in { "400", "401", "403", "404" } => ~reply.spawned)
        /\ (reply.gitdir.found /\ reply.exc = "none" /\ conf.auth_failed /\ Denied) =>
              /\ IsPrefix(Head401, reply.client)
              /\ reply.finish_count = 1
              /\ ~reply.spawned

\* a push by a user whose password is wrong was answered 401 and spawned nothing
C11_Witness ==
    /\ reply.done /\ conf.auth /\ conf.auth_failed /\ reply.auth_called
    /\ request.handler = "RPCHandler" /\ RequestedRpc = GitReceivePack
    /\ request.authorization.present
    /\ Denied /\ ReplyStatus = "401" /\ reply.finish_count = 1 /\ ~reply.spawned

\* the headers that carry alice's password, the repositories of her allow-list
ValidCredentials ==
    request.authorization.present /\ request.authorization.value \in
        { BasicOf(<< "YWxpY2U", "Og", "c2VjcmV0" >>),
          << " ", "BASIC", " ", " ", "YWxpY2U", "Og", "c2VjcmV0", " " >> }

InAllowList == pathlets(request)[1] \in { << "repo.git" >>, << "priv.git" >> }

\* C12: auth returns a pair for every request and never raises; may_read is
\* true, and may_write is true exactly when the stored password matches and the
\* repository segment is in the user's allow-list, so every other header (none,
\* not Basic, bad base64, no ':', unknown user, wrong password) gives (true, false).
C12_AuthNeverRaises ==
    reply.auth_called =>
        /\ reply.exc \notin { "binascii.Error", "ValueError" }
        /\ reply.perms = << TRUE, ValidCredentials /\ InAllowList >>

\* C13: a directory gitlookup returns is, with its symbolic links followed, a
\* proper descendant of the base directory.
C13_LookupStaysUnderBase ==
    reply.gitdir.found =>
        /\ startswith(realpath(reply.gitdir.path), realpath(gitbase))
        /\ realpath(reply.gitdir.path) # realpath(gitbase)

\* C14: the prelude handed to the bridge by info/refs is a pkt-line whose four
\* hex digits give the length of its text plus 4, followed by the flush packet,
\* and for service=git-upload-pack it is 001e# service=git-upload-pack\n0000.
C14_PreludeIsPktLine ==
    (reply.done /\ reply.spawned /\ request.handler = "InfoRefsHandler") =>
        /\ Len(reply.prelude) >= 8
        /\ ParseHex(Take(reply.prelude, 4)) = Len(reply.prelude) - 8 + 4
        /\ Drop(reply.prelude, Len(reply.prelude) - 4) = FlushPacket
        /\ (RequestedRpc = GitUploadPack =>
               reply.prelude = << "0", "0", "1", "e" >> \o ServiceText \o UploadPack
                               \o << "LF" >> \o FlushPacket)

\* C15: while an HTTP/1.1 request is served no handler of the bridge holds the
\* event loop in a read to end-of-file of a pipe of the child; so the loop is
\* never stopped waiting for the child to close stdout or stderr while the
\* child's stdin is open and waits for the loop.
C15_NoBlockingRead == http11 => blocked = "none"

\* C16: when got_request is true and the inbound buffer is empty, stdin gets
\* closed: as long as it is open (under HTTP/1.1) the event loop is able to hand
\* the next stdin event to its handler, which closes stdin and removes the
\* handler; the loop is neither at rest nor held inside another handler.
C16_StdinClosedWhenDrained ==
    (http11 /\ got_request /\ process_input_buffer = << >> /\ phase = "running"
        /\ ~closed["stdin"])
        => (blocked = "none" /\ ~Quiescent)

\* C17: got_request never goes from true back to false; whenever the bridge has
\* closed the child's stdin, got_request is true and the inbound buffer is empty
\* (the close comes after the last byte was written); and once stdin is closed no
\* byte is appended to the inbound buffer.
C17_CloseAfterLastByte ==
    /\ [][got_request => got_request']_vars
    /\ [](closed["stdin"] => (got_request /\ process_input_buffer = << >>))
    /\ [][closed["stdin"] => Len(process_input_buffer') <= Len(process_input_buffer)]_vars

\* C18: the chunk reader never issues a read on the client connection while a
\* read it issued before (chunk-size line or chunk data) is still outstanding:
\* the stream never has to refuse a read with "Already reading", whether the
\* reads complete from the buffer or through the event loop.
C18_OneReadOutstanding == "AlreadyReading" \notin raised

Terminators ==
    { i \in 1 .. Len(ResponseBody) :
        /\ ResponseBody[i] = "0"
        /\ (i = 1 \/ ~IsHexDigit(ResponseBody[i - 1]))
        /\ IsCRLF(ResponseBody, i + 1) }

\* C20: in a chunked response the chunk of size zero is written exactly once, by
\* the completion, and is the last thing written: no chunk written for a stdout
\* event has size zero, the body ends with the terminator when the request is
\* finished, and nothing is written to the client after the terminator.
C20_TerminatorOnceAndLast ==
    /\ [](sent_chunks =>
            /\ Cardinality(Terminators) = (IF finish_count >= 1 THEN 1 ELSE 0)
            /\ (finish_count >= 1 =>
                  Drop(ResponseBody, Len(ResponseBody) - Len(LastChunk)) = LastChunk))
    /\ [][(sent_chunks /\ Terminators # {}) => client' = client]_vars

\* C21: once the stdin handler has been removed from the event loop the bridge
\* does nothing more with it: no stdin event is left for the handler (so no
\* second remove_handler), and no chunk is taken in, neither a data chunk that
\* puts bytes in the buffer nor the zero chunk that sets got_request, both of
\* which go on to update_handler for stdin.
C21_NoHandlerOpAfterRemoval ==
    /\ []((phase = "running" /\ handlers["stdin"] = {}) => events["stdin"] = {})
    /\ [][(phase = "running" /\ handlers["stdin"] = {}) =>
            /\ got_request' = got_request
            /\ Len(process_input_buffer') <= Len(process_input_buffer)]_vars

\* C22: for an HTTP/1.0 client the 200 response starts with a head whose
\* Content-Length is the length of the prelude plus the length of the stdout
\* payload drained, followed by exactly that prelude and that payload.
C22_ContentLengthCountsBody ==
    (Response # << >> /\ Response[1] = "HTTP/1.0 200") =>
        \E n \in 0 .. Len(ChildStdout) :
            IsPrefix(Head200Length(Len(output_prelude) + n) \o output_prelude
                         \o Take(ChildStdout, n),
                     Response)

\* C23: every child a handler spawns is given the sub-command upload-pack or
\* receive-pack as the second element of its command, for every path and every
\* 'service' value that passes enforce_perms, the names without the prefix
\* 'git-' included.
C23_SubCommandIsKnown ==
    reply.spawned => reply.command[2] \in { UploadPack, ReceivePack }

====
